---- MODULE Spec2Model ----
(***************************************************************************)
(* Model of raydiwill/stock-prediction-ml:                                 *)
(*   - data_validation/validation.py : the expectation suite, its run over *)
(*     a batch and the report of main()            (specification Spec)    *)
(*   - marketstack/pull.py : fetch, normalise, persist (specification      *)
(*     PullSpec)                                                           *)
(* A DataFrame is [columns, dtypes, rows]: the ordered column names, the   *)
(* dtype of each column and the rows (each a function from column name to  *)
(* value).  Calendar days are integers, prices and volumes are             *)
(* non-negative integers, and a missing numeric value (NaN) is negative.   *)
(***************************************************************************)
EXTENDS Integers, Sequences, FiniteSets, TLC

VARIABLES
  vpc,               \* validation.main: position in the run
  input_file,        \* the Parquet file at args.input
  batch,             \* the DataFrame of the batch (get_batch)
  validation_result, \* what batch.validate(suite) returned
  successful_count,  \* main: number of results with success
  total_count,       \* main: number of results
  headline,          \* main: "Failed expectations:" or "All expectations passed!"
  report,            \* main: the lines logged for the failed expectations
  ipc,               \* pull.main: position in the run
  output,            \* args.output, a path as its sequence of components
  fs,                \* the files on disk: path -> [bytes, fresh]
  dirs,              \* the directories on disk
  requests,          \* the number of calls of requests.get
  response,          \* the response of the remote
  stock_data,        \* what fetch_eod_with_date returned
  df,                \* what process_dataframe returned
  error,             \* the exception that ended the run
  log                \* the records logged by pull.py

vvars == <<vpc, input_file, batch, validation_result, successful_count,
           total_count, headline, report>>

pvars == <<ipc, output, fs, dirs, requests, response, stock_data, df, error, log>>

vars == <<vvars, pvars>>

-----------------------------------------------------------------------------
(* Generic helpers *)

Range(s) == {s[i] : i \in DOMAIN s}

Get(kwargs, key, default) == IF key \in DOMAIN kwargs THEN kwargs[key] ELSE default

RECURSIVE CountTrue(_)
CountTrue(flags) ==
  IF flags = <<>> THEN 0
  ELSE (IF Head(flags) THEN 1 ELSE 0) + CountTrue(Tail(flags))

EmptyDict == [k \in {} |-> 0]

EmptyDF == [columns |-> <<>>, dtypes |-> [c \in {} |-> "object"], rows |-> <<>>]

Columns(d) == Range(d.columns)

-----------------------------------------------------------------------------
(* Parquet: a columnar file holds the schema and one chunk per column *)

ToParquet(d) ==
  [schema |-> [i \in DOMAIN d.columns |-> <<d.columns[i], d.dtypes[d.columns[i]]>>],
   num_rows |-> Len(d.rows),
   chunks |-> [c \in Columns(d) |-> [i \in DOMAIN d.rows |-> d.rows[i][c]]]]

ReadParquet(f) ==
  LET names == [i \in DOMAIN f.schema |-> f.schema[i][1]]
  IN [columns |-> names,
      dtypes |-> [c \in Range(names) |->
                    (CHOOSE e \in Range(f.schema) : e[1] = c)[2]],
      rows |-> [i \in 1..f.num_rows |-> [c \in Range(names) |-> f.chunks[c][i]]]]

-----------------------------------------------------------------------------
(* validation.py: build_expectation_suite *)

ColumnSet == <<"date", "symbol", "open", "high", "low", "close", "volume", "adj_close">>

AllowedSymbols == {"AAPL", "MSFT", "AMZN", "GOOGL", "META", "NVDA", "TSLA"}

MinRowCount == 1

VolumeTypeInt == "int64"

VolumeType == "float64"

Expectation(type, kwargs) == [type |-> type, kwargs |-> kwargs]

NotNull(c) == Expectation("expect_column_values_to_not_be_null", [column |-> c])

OfType(c, t) ==
  Expectation("expect_column_values_to_be_of_type", [column |-> c, type_ |-> t])

build_expectation_suite ==
  << Expectation("expect_table_columns_to_match_set", [column_set |-> ColumnSet]),
     NotNull("date"), NotNull("symbol"), NotNull("open"), NotNull("close"),
     NotNull("volume"),
     OfType("date", "Timestamp"), OfType("symbol", "object"),
     OfType("open", "float64"), OfType("high", "float64"),
     OfType("low", "float64"), OfType("close", "float64"),
     OfType("adj_close", "float64"), OfType("volume", VolumeType),
     Expectation("expect_column_pair_values_a_to_be_greater_than_b",
                 [column_A |-> "high", column_B |-> "low"]),
     Expectation("expect_compound_columns_to_be_unique",
                 [column_list |-> <<"date", "symbol">>]),
     Expectation("expect_table_row_count_to_be_between", [min_value |-> MinRowCount]),
     Expectation("expect_column_values_to_be_in_set",
                 [column |-> "symbol", value_set |-> AllowedSymbols]) >>

-----------------------------------------------------------------------------
(* validation.py: validate_batch, i.e. batch.validate(suite).  Each          *)
(* expectation is evaluated on the DataFrame; one whose column is not in the *)
(* batch cannot compute its metrics: the error is caught and the expectation *)
(* is reported as failed, with no result payload.                            *)

IsNull(c, v) == IF c = "symbol" THEN v = "None" ELSE v < 0

\* the columns whose values an expectation reads
MetricColumns(cfg) ==
  LET k == cfg.kwargs
  IN (IF "column" \in DOMAIN k THEN {k.column} ELSE {})
       \cup (IF "column_A" \in DOMAIN k THEN {k.column_A, k.column_B} ELSE {})
       \cup (IF "column_list" \in DOMAIN k THEN Range(k.column_list) ELSE {})

MetricError(cfg, d) == ~(MetricColumns(cfg) \subseteq Columns(d))

\* a map expectation over zero rows is vacuously satisfied; otherwise (mostly = 1)
\* no row may be unexpected.  bad is the set of the unexpected rows' indexes.
MapOutcome(d, bad) ==
  [success |-> (Len(d.rows) = 0 \/ Cardinality(bad) = 0),
   result |-> [element_count |-> Len(d.rows), unexpected_count |-> Cardinality(bad)]]

\* exact_match = False: the table's columns only have to be among column_set
TableColumnsToBeAmongSet(k, d) ==
  [success |-> (Columns(d) \subseteq Range(k.column_set)),
   result |-> [observed_value |-> d.columns]]

TableColumnsToMatchSet(k, d) ==
  [success |-> (Columns(d) = Range(k.column_set)),
   result |-> [observed_value |-> d.columns]]

ColumnValuesToNotBeNull(k, d) ==
  MapOutcome(d, {i \in DOMAIN d.rows : IsNull(k.column, d.rows[i][k.column])})

\* the Python type a pandas dtype reports (dtype.type)
DtypeType(dtype) ==
  CASE dtype = "datetime64[ns, UTC]" -> "Timestamp"
    [] dtype = "datetime64[ns]" -> "datetime64"
    [] dtype = "object" -> "object_"
    [] OTHER -> dtype

\* the types an expected type name stands for
CompTypes(type_) == IF type_ = "object" THEN {"object_"} ELSE {type_}

ColumnValuesToBeOfType(k, d) ==
  LET dtype == d.dtypes[k.column]
  IN IF dtype = "object" /\ k.type_ # "object"
     THEN \* the values of an object column are checked one by one: they are str
          MapOutcome(d, {i \in DOMAIN d.rows :
                           /\ ~IsNull(k.column, d.rows[i][k.column])
                           /\ "str" \notin CompTypes(k.type_)})
     ELSE [success |-> (DtypeType(dtype) \in CompTypes(k.type_)),
           result |-> [observed_value |-> dtype]]

\* or_equal = True
AGreaterThanOrEqualB(a, b) == a >= b

AGreaterThanB(a, b) == a > b

\* ignore_row_if = "both_values_are_missing"; a comparison with NaN is false
ColumnPairValuesAToBeGreaterThanB(k, d) ==
  MapOutcome(d, {i \in DOMAIN d.rows :
                   LET a == d.rows[i][k.column_A]
                       b == d.rows[i][k.column_B]
                   IN /\ ~(IsNull(k.column_A, a) /\ IsNull(k.column_B, b))
                      /\ \/ IsNull(k.column_A, a)
                         \/ IsNull(k.column_B, b)
                         \/ ~AGreaterThanB(a, b)})

CompoundColumnsToBeUnique(k, d) ==
  LET Key(r) == [i \in DOMAIN k.column_list |-> r[k.column_list[i]]]
      Dup(i) == \E j \in DOMAIN d.rows : j # i /\ Key(d.rows[j]) = Key(d.rows[i])
  IN [success |-> (\A i \in DOMAIN d.rows : ~Dup(i)),
      result |-> [element_count |-> Len(d.rows),
                  unexpected_count |-> Cardinality({i \in DOMAIN d.rows : Dup(i)})]]

\* no min_value: any row count is accepted
TableRowCountUnbounded(k, d) ==
  [success |-> TRUE, result |-> [observed_count |-> Len(d.rows)]]

TableRowCountToBeBetween(k, d) ==
  [success |-> (Len(d.rows) >= k.min_value),
   result |-> [observed_count |-> Len(d.rows)]]

ColumnValuesToBeInSet(k, d) ==
  MapOutcome(d, {i \in DOMAIN d.rows :
                   /\ ~IsNull(k.column, d.rows[i][k.column])
                   /\ d.rows[i][k.column] \notin k.value_set})

Evaluate(cfg, d) ==
  LET k == cfg.kwargs
  IN CASE cfg.type = "expect_table_columns_to_match_set" -> TableColumnsToMatchSet(k, d)
       [] cfg.type = "expect_column_values_to_not_be_null" -> ColumnValuesToNotBeNull(k, d)
       [] cfg.type = "expect_column_values_to_be_of_type" -> ColumnValuesToBeOfType(k, d)
       [] cfg.type = "expect_column_pair_values_a_to_be_greater_than_b" ->
            ColumnPairValuesAToBeGreaterThanB(k, d)
       [] cfg.type = "expect_compound_columns_to_be_unique" -> CompoundColumnsToBeUnique(k, d)
       [] cfg.type = "expect_table_row_count_to_be_between" -> TableRowCountToBeBetween(k, d)
       [] cfg.type = "expect_column_values_to_be_in_set" -> ColumnValuesToBeInSet(k, d)

ExpectationResult(cfg, d) ==
  IF MetricError(cfg, d)
  THEN [success |-> FALSE, expectation_config |-> cfg, result |-> EmptyDict,
        raised_exception |-> TRUE]
  ELSE [success |-> Evaluate(cfg, d).success, expectation_config |-> cfg,
        result |-> Evaluate(cfg, d).result, raised_exception |-> FALSE]

\* a validation that stops at the first expectation whose metrics cannot be computed
RECURSIVE ValidateUntilError(_, _)
ValidateUntilError(d, suite) ==
  IF suite = <<>> \/ MetricError(Head(suite), d) THEN <<>>
  ELSE <<ExpectationResult(Head(suite), d)>> \o ValidateUntilError(d, Tail(suite))

Validate(d, suite) == [i \in DOMAIN suite |-> ExpectationResult(suite[i], d)]

validate_batch(d, suite) ==
  [results |-> Validate(d, suite),
   success |-> (\A i \in DOMAIN suite : ExpectationResult(suite[i], d).success)]

-----------------------------------------------------------------------------
(* validation.py: main, lines 164-183: the tally and the failed expectations *)

FailedLine(r) ==
  [expectation_type |-> r.expectation_config.type,
   column |-> Get(r.expectation_config.kwargs, "column", "N/A"),
   result_details |-> r.result]

IsSucceeded(r) == r.success

IsFailed(r) == ~r.success

FailedLines(results) ==
  LET failed == SelectSeq(results, IsFailed)
  IN [i \in DOMAIN failed |-> FailedLine(failed[i])]

-----------------------------------------------------------------------------
(* The Parquet files a validation run is given.  Rows are kept in            *)
(* (date, symbol) order, as the ingestion stage writes them.                 *)

MaxRows == 2

Days == {2, 3}

\* the symbols of the input rows, in string order; IBM is not an allowed symbol
SymbolOrder == <<"AAPL", "IBM", "MSFT">>

\* <<open, high, low>> of a row: a regular day, a flat day (high = low), an
\* inverted one (high < low) and a day whose open is missing
PriceShapes == {<<1, 2, 1>>, <<1, 1, 1>>, <<1, 1, 2>>, <<-1, 2, 1>>}

InputRows ==
  {[date |-> d, symbol |-> s, open |-> p[1], high |-> p[2], low |-> p[3],
    close |-> 1, volume |-> 7, adj_close |-> 1] :
     d \in Days, s \in Range(SymbolOrder), p \in PriceShapes}

SymbolRank(s) == CHOOSE i \in DOMAIN SymbolOrder : SymbolOrder[i] = s

\* (date, symbol) of r1 is at most that of r2
KeyLeq(r1, r2) ==
  \/ r1.date < r2.date
  \/ r1.date = r2.date /\ SymbolRank(r1.symbol) <= SymbolRank(r2.symbol)

IsSorted(rows) == \A i \in 1..(Len(rows) - 1) : KeyLeq(rows[i], rows[i + 1])

InputRowLists ==
  {rows \in UNION {[1..n -> InputRows] : n \in 0..MaxRows} : IsSorted(rows)}

DesignatedDtypes ==
  [c \in Range(ColumnSet) |->
     CASE c = "date" -> "datetime64[ns, UTC]"
       [] c = "symbol" -> "object"
       [] OTHER -> "float64"]

Retyped(c, dtype) == [DesignatedDtypes EXCEPT ![c] = dtype]

Without(cols, c) == SelectSeq(cols, LAMBDA x : x # c)

\* the schemas of the input files: the designated one, each column dropped in
\* turn, one column too many, and the other types a column may be stored with
InputSchemas ==
  {[columns |-> ColumnSet, dtypes |-> DesignatedDtypes]}
    \cup {[columns |-> Without(ColumnSet, c),
           dtypes |-> [x \in Range(ColumnSet) \ {c} |-> DesignatedDtypes[x]]] :
            c \in Range(ColumnSet)}
    \cup {[columns |-> Append(ColumnSet, "exchange"),
           dtypes |-> [x \in Range(ColumnSet) \cup {"exchange"} |->
                         IF x = "exchange" THEN "object" ELSE DesignatedDtypes[x]]]}
    \cup {[columns |-> ColumnSet, dtypes |-> Retyped("date", "datetime64[ns]")],
          [columns |-> ColumnSet, dtypes |-> Retyped("date", "object")],
          [columns |-> ColumnSet, dtypes |-> Retyped("volume", "int64")]}

InputTable(schema, rows) ==
  [columns |-> schema.columns,
   dtypes |-> schema.dtypes,
   rows |-> [i \in DOMAIN rows |->
               [c \in Range(schema.columns) |->
                  IF c = "exchange" THEN "XNAS" ELSE rows[i][c]]]]

InputFiles ==
  {ToParquet(InputTable(schema, rows)) : schema \in InputSchemas, rows \in InputRowLists}

-----------------------------------------------------------------------------
(* pull.py: fetch_eod_with_date *)

HTTP_OK == 200

\* a check of the status class instead: only a status outside 2xx fails
IsOutside2xx(status_code) == status_code < 200 \/ status_code > 299

\* line 91: if response.status_code != 200
RequestFailed(status_code) == status_code # HTTP_OK

\* lines 92-93: the body text is logged; the exception carries the status code
FailureLog(resp) ==
  [level |-> "error", message |-> "API call failed", status_code |-> resp.status_code,
   text |-> resp.text]

RequestError(resp) ==
  [type |-> "Exception", message |-> "API request failed", status_code |-> resp.status_code]

\* lines 95-97
FetchedLog(resp) ==
  [level |-> "info", message |-> "Successfully fetched records",
   count |-> Len(Get(resp.json, "data", <<>>))]

-----------------------------------------------------------------------------
(* pull.py: process_dataframe *)

\* the keys of the remote's records, in the order the remote writes them
RemoteKeyOrder ==
  <<"open", "high", "low", "close", "volume", "adj_close", "symbol", "exchange", "date">>

\* pd.to_datetime of the remote's date strings
to_datetime(text) ==
  CASE text = "2025-01-02T00:00:00+0000" -> 2
    [] text = "2025-01-03T00:00:00+0000" -> 3

\* line 126, pd.DataFrame(stock_data): the columns are the keys met in the
\* records, a key that a record lacks reads None; strings give an object
\* column and the remote's numbers, which it writes as floats, a float64 one
DataFrame(records) ==
  LET keys == UNION {DOMAIN records[i] : i \in DOMAIN records}
      cols == SelectSeq(RemoteKeyOrder, LAMBDA c : c \in keys)
  IN [columns |-> cols,
      dtypes |-> [c \in keys |->
                    IF c \in {"date", "symbol", "exchange"} THEN "object" ELSE "float64"],
      rows |-> [i \in DOMAIN records |->
                  [c \in keys |-> Get(records[i], c, "None")]]]

\* line 127: df["date"] = pd.to_datetime(df["date"])
ParseDates(d) ==
  [d EXCEPT !.dtypes = [@ EXCEPT !["date"] = "datetime64[ns, UTC]"],
            !.rows = [i \in DOMAIN d.rows |->
                        [d.rows[i] EXCEPT !["date"] = to_datetime(@)]]]

\* line 128: df[[...]]
SelectColumns(d, cols) ==
  [columns |-> cols,
   dtypes |-> [c \in Range(cols) |-> d.dtypes[c]],
   rows |-> [i \in DOMAIN d.rows |-> [c \in Range(cols) |-> d.rows[i][c]]]]

KeyLess(r1, r2) == KeyLeq(r1, r2) /\ ~KeyLeq(r2, r1)

\* r placed before the first row of the sorted rows whose key is greater
RECURSIVE InsertByKey(_, _)
InsertByKey(r, rows) ==
  IF rows = <<>> THEN <<r>>
  ELSE IF KeyLess(r, Head(rows)) THEN <<r>> \o rows
  ELSE <<Head(rows)>> \o InsertByKey(r, Tail(rows))

\* line 129: sort_values(["date", "symbol"]).reset_index(drop=True)
RECURSIVE SortRows(_)
SortRows(rows) ==
  IF rows = <<>> THEN <<>>
  ELSE InsertByKey(rows[Len(rows)], SortRows(SubSeq(rows, 1, Len(rows) - 1)))

sort_values(d) == [d EXCEPT !.rows = SortRows(d.rows)]

KeyError(key) == [type |-> "KeyError", message |-> key]

NoError == [type |-> "none"]

\* lines 126-131; a column that the frame lacks raises KeyError
process_dataframe(records) ==
  LET frame == DataFrame(records)
  IN IF "date" \notin Columns(frame)
     THEN [error |-> KeyError("date"), df |-> EmptyDF]
     ELSE IF ~(Range(ColumnSet) \subseteq Columns(frame))
     THEN [error |-> KeyError("not in index"), df |-> EmptyDF]
     ELSE [error |-> NoError,
           df |-> sort_values(SelectColumns(ParseDates(frame), ColumnSet))]

-----------------------------------------------------------------------------
(* pull.py: save_to_parquet *)

IsAbsolute(path) == path # <<>> /\ path[1] = "/"

\* pathlib's "/": an absolute right operand replaces the left one
PathJoin(base, path) == IF IsAbsolute(path) THEN path ELSE base \o path

\* the file name used as it is given
OutputPathAsGiven(filename) == filename

\* line 158: Path("data/raw") / filename
OutputPath(filename) == PathJoin(<<"data", "raw">>, filename)

Parents(path) == {SubSeq(path, 1, n) : n \in 1..(Len(path) - 1)}

\* line 159: output_path.parent.mkdir(parents=True, exist_ok=True)
Mkdir(ds, path) == ds \cup Parents(path)

\* line 161: df.to_parquet(output_path, index=False) writes the whole file
WriteFile(files, path, d) ==
  [q \in DOMAIN files \cup {path} |->
     IF q = path THEN [bytes |-> ToParquet(d), fresh |-> TRUE] ELSE files[q]]

-----------------------------------------------------------------------------
(* The inputs of an ingestion run *)

MaxRecords == 3

RemoteRecords ==
  {[date |-> d, symbol |-> s, open |-> 1, high |-> 2, low |-> 1, close |-> 1,
    volume |-> 7, adj_close |-> 1] :
     d \in {"2025-01-02T00:00:00+0000", "2025-01-03T00:00:00+0000"},
     s \in {"AAPL", "MSFT"}}
  \cup
  {[date |-> d, symbol |-> s, open |-> 1, high |-> 2, low |-> 1, close |-> 1,
    volume |-> 7, adj_close |-> 1, exchange |-> "XNAS"] :
     d \in {"2025-01-02T00:00:00+0000", "2025-01-03T00:00:00+0000"},
     s \in {"AAPL", "MSFT"}}

RecordLists == UNION {[1..n -> RemoteRecords] : n \in 0..MaxRecords}

\* what the remote may answer: the records with 200 or with another 2xx
\* status, or an error
Responses ==
  {[status_code |-> st, text |-> "{data: [...]}", json |-> [data |-> recs]] :
     st \in {200, 206}, recs \in RecordLists}
  \cup
  {[status_code |-> st, text |-> "{error: {...}}", json |-> [error |-> "failed"]] :
     st \in {401, 500}}

NoResponse == [status_code |-> 0, text |-> "", json |-> [error |-> "no request"]]

Outputs == {<<"eod_data.parquet">>, <<"runs", "eod.parquet">>, <<"/", "tmp", "eod.parquet">>}

\* a file that was on disk before the run
OldFile ==
  [bytes |-> ToParquet([columns |-> <<"date">>,
                        dtypes |-> [c \in {"date"} |-> "datetime64[ns, UTC]"],
                        rows |-> <<[date |-> 1]>>]),
   fresh |-> FALSE]

\* no ingestion run: the state of its variables before main() starts
PullIdle ==
  /\ ipc = "start"
  /\ output = <<"eod_data.parquet">>
  /\ fs = [q \in {} |-> OldFile]
  /\ dirs = {}
  /\ requests = 0
  /\ response = NoResponse
  /\ stock_data = <<>>
  /\ df = EmptyDF
  /\ error = NoError
  /\ log = <<>>

-----------------------------------------------------------------------------
(* validation.py: main *)

\* no validation run: the state of its variables before main() starts
ValidationIdle ==
  /\ vpc = "start"
  /\ batch = EmptyDF
  /\ validation_result = [results |-> <<>>, success |-> TRUE]
  /\ successful_count = 0
  /\ total_count = 0
  /\ headline = ""
  /\ report = <<>>

Init ==
  /\ ValidationIdle
  /\ input_file \in InputFiles
  /\ PullIdle

\* line 159: batch = get_batch(args.input, batch_definition)
GetBatch ==
  /\ vpc = "start"
  /\ batch' = ReadParquet(input_file)
  /\ vpc' = "batch"
  /\ UNCHANGED <<input_file, validation_result, successful_count, total_count,
                 headline, report>>
  /\ UNCHANGED pvars

\* lines 160-162: suite = build_expectation_suite(...); validate_batch(batch, suite)
ValidateBatch ==
  /\ vpc = "batch"
  /\ validation_result' = validate_batch(batch, build_expectation_suite)
  /\ vpc' = "validated"
  /\ UNCHANGED <<input_file, batch, successful_count, total_count, headline, report>>
  /\ UNCHANGED pvars

\* lines 164-183: the tally, then the failed expectations or "all passed"
Summarize ==
  /\ vpc = "validated"
  /\ LET results == validation_result.results
         passed == CountTrue([i \in DOMAIN results |-> results[i].success])
     IN /\ successful_count' = passed
        /\ total_count' = Len(results)
        /\ IF passed < Len(results)
           THEN /\ headline' = "Failed expectations:"
                /\ report' = FailedLines(results)
           ELSE /\ headline' = "All expectations passed!"
                /\ report' = <<>>
  /\ vpc' = "done"
  /\ UNCHANGED <<input_file, batch, validation_result>>
  /\ UNCHANGED pvars

Next == GetBatch \/ ValidateBatch \/ Summarize

Spec == Init /\ [][Next]_vars

-----------------------------------------------------------------------------
(* pull.py: main *)

PullInit ==
  /\ ValidationIdle
  /\ input_file = ToParquet(EmptyDF)
  /\ ipc = "start"
  /\ output \in Outputs
  /\ \E old \in SUBSET {output, OutputPath(output)} :
       /\ fs = [q \in old |-> OldFile]
       /\ dirs = UNION {Parents(q) : q \in old}
  /\ requests = 0
  /\ response = NoResponse
  /\ stock_data = <<>>
  /\ df = EmptyDF
  /\ error = NoError
  /\ log = <<>>

\* lines 192-200 and 204-206: the request fails; the error is logged and raised
\* again by main
FetchFails(resp) ==
  /\ RequestFailed(resp.status_code)
  /\ log' = log \o <<FailureLog(resp),
                     [level |-> "error", message |-> "Error occurred",
                      status_code |-> resp.status_code]>>
  /\ error' = RequestError(resp)
  /\ ipc' = "raised"
  /\ UNCHANGED stock_data

\* lines 95-97: the records of the body are returned
FetchReturns(resp) ==
  /\ ~RequestFailed(resp.status_code)
  /\ log' = Append(log, FetchedLog(resp))
  /\ stock_data' = resp.json.data
  /\ ipc' = "fetched"
  /\ UNCHANGED error

\* a failed request is left to be issued once more
FetchWithRetry ==
  /\ ipc = "start"
  /\ requests < 2
  /\ \E resp \in Responses :
       /\ requests' = requests + 1
       /\ response' = resp
       /\ IF RequestFailed(resp.status_code) /\ requests = 0
          THEN UNCHANGED <<ipc, log, error, stock_data>>
          ELSE FetchFails(resp) \/ FetchReturns(resp)
  /\ UNCHANGED <<output, fs, dirs, df>>
  /\ UNCHANGED vvars

\* lines 192-200: load_config, then fetch_eod_with_date with its one request
Fetch ==
  /\ ipc = "start"
  /\ \E resp \in Responses :
       /\ requests' = requests + 1
       /\ response' = resp
       /\ (FetchFails(resp) \/ FetchReturns(resp))
  /\ UNCHANGED <<output, fs, dirs, df>>
  /\ UNCHANGED vvars

\* line 201: df = process_dataframe(stock_data)
Process ==
  /\ ipc = "fetched"
  /\ LET out == process_dataframe(stock_data)
     IN IF out.error = NoError
        THEN /\ df' = out.df
             /\ ipc' = "processed"
             /\ UNCHANGED <<error, log>>
        ELSE /\ error' = out.error
             /\ ipc' = "raised"
             /\ log' = Append(log, [level |-> "error", message |-> "Error occurred",
                                    key |-> out.error.message])
             /\ UNCHANGED df
  /\ UNCHANGED <<output, fs, dirs, requests, response, stock_data>>
  /\ UNCHANGED vvars

\* line 202: save_to_parquet(df, args.output)
Save ==
  /\ ipc = "processed"
  /\ dirs' = Mkdir(dirs, OutputPath(output))
  /\ fs' = WriteFile(fs, OutputPath(output), df)
  /\ log' = Append(log, [level |-> "info", message |-> "Saved to",
                         path |-> OutputPath(output)])
  /\ ipc' = "saved"
  /\ UNCHANGED <<output, requests, response, stock_data, df, error>>
  /\ UNCHANGED vvars

PullNext == Fetch \/ Process \/ Save

PullSpec == PullInit /\ [][PullNext]_vars

-----------------------------------------------------------------------------
(* Properties of the validation run *)

Done == vpc = "done"

Suite == build_expectation_suite

Results == validation_result.results

\* the configurations of the expectations reported as failed
FailedConfigs == {Results[i].expectation_config : i \in {j \in DOMAIN Results : ~Results[j].success}}

ColumnSetRule == Expectation("expect_table_columns_to_match_set", [column_set |-> ColumnSet])

PairRule ==
  Expectation("expect_column_pair_values_a_to_be_greater_than_b",
              [column_A |-> "high", column_B |-> "low"])

RowCountRule == Expectation("expect_table_row_count_to_be_between", [min_value |-> 1])

\* the column names an expectation is about
TargetColumns(cfg) ==
  LET k == cfg.kwargs
  IN (IF "column" \in DOMAIN k THEN {k.column} ELSE {})
       \cup (IF "column_set" \in DOMAIN k THEN Range(k.column_set) ELSE {})
       \cup (IF "column_A" \in DOMAIN k THEN {k.column_A} ELSE {})
       \cup (IF "column_B" \in DOMAIN k THEN {k.column_B} ELSE {})
       \cup (IF "column_list" \in DOMAIN k THEN Range(k.column_list) ELSE {})

\* the columns of d are typed as the suite designates
DesignatedTypes(d) == \A c \in Columns(d) \cap Range(ColumnSet) : d.dtypes[c] = DesignatedDtypes[c]

\* the columns of d are typed as the data model allows: the date with or
\* without a time zone, the volume an integer or a floating count
DataModelTypes(d) ==
  \A c \in Columns(d) \cap Range(ColumnSet) :
    \/ d.dtypes[c] = DesignatedDtypes[c]
    \/ c = "date" /\ d.dtypes[c] = "datetime64[ns]"
    \/ c = "volume" /\ d.dtypes[c] = "int64"

Has(d, cs) == cs \subseteq Columns(d)

NoNulls(d) == \A i \in DOMAIN d.rows : \A c \in Columns(d) : ~IsNull(c, d.rows[i][c])

SymbolsAllowed(d) ==
  Has(d, {"symbol"}) =>
    \A i \in DOMAIN d.rows :
      d.rows[i].symbol \in {"AAPL", "MSFT", "AMZN", "GOOGL", "META", "NVDA", "TSLA"}

KeysUnique(d) ==
  Has(d, {"date", "symbol"}) =>
    \A i, j \in DOMAIN d.rows :
      i # j => <<d.rows[i].date, d.rows[i].symbol>> # <<d.rows[j].date, d.rows[j].symbol>>

HighAboveLow(d) ==
  Has(d, {"high", "low"}) => \A i \in DOMAIN d.rows : d.rows[i].high > d.rows[i].low

\* valid in everything but, possibly, the high/low relation
ValidButHighLow(d) ==
  /\ Len(d.rows) >= 1
  /\ NoNulls(d)
  /\ SymbolsAllowed(d)
  /\ KeysUnique(d)

ValidRows(d) == ValidButHighLow(d) /\ HighAboveLow(d)

\* C1 as stated: every table of the eight columns that conforms to the data
\* model (the volume an integer or a floating count), with high > low on every
\* row, unique (date, symbol), allowed symbols and at least one row, passes
\* every rule: passed == total.
C1_AsStated ==
  (Done /\ Columns(batch) = Range(ColumnSet) /\ DataModelTypes(batch) /\ ValidRows(batch))
    => successful_count = total_count

\* C1 amended: such a table passes every rule provided its columns hold the
\* types the suite designates: date a UTC timestamp, symbol object, the five
\* prices and the volume float64.
C1_DesignatedValidPasses ==
  (Done /\ Columns(batch) = Range(ColumnSet) /\ DesignatedTypes(batch) /\ ValidRows(batch))
    => /\ successful_count = total_count
       /\ FailedConfigs = {}
       /\ headline = "All expectations passed!"

C1_Witness ==
  /\ Done /\ Columns(batch) = Range(ColumnSet) /\ DesignatedTypes(batch) /\ ValidRows(batch)
  /\ Len(batch.rows) >= 2
  /\ successful_count = total_count /\ total_count > 0

\* batch is an otherwise valid table with column c removed
Removed(c) ==
  /\ Columns(batch) = Range(ColumnSet) \ {c}
  /\ DesignatedTypes(batch)
  /\ ValidRows(batch)

\* C2 as stated: removing any one required column from an otherwise valid
\* table makes the column-set rule fail and every other rule succeed.
C2_AsStated ==
  \A c \in Range(ColumnSet) : (Done /\ Removed(c)) => FailedConfigs = {ColumnSetRule}

\* C2 amended: removing column c makes the column-set rule fail, makes every
\* rule that targets c fail too (its metrics cannot be computed), and every
\* rule that does not target c succeeds.
C2_RemovedColumnFailsItsRules ==
  \A c \in Range(ColumnSet) :
    (Done /\ Removed(c)) =>
      FailedConfigs = {ColumnSetRule} \cup {cfg \in Range(Suite) : c \in TargetColumns(cfg)}

C2_Witness ==
  /\ Done /\ Removed("adj_close")
  /\ Len(batch.rows) >= 2
  /\ Cardinality(FailedConfigs) = 2

\* C3: an otherwise valid table with at least one row where high <= low
\* (high == low included) fails the pairwise rule and no other, whatever the
\* other rows hold.
C3_HighNotAboveLowFailsPairOnly ==
  (/\ Done /\ Columns(batch) = Range(ColumnSet) /\ DesignatedTypes(batch)
   /\ ValidButHighLow(batch)
   /\ \E i \in DOMAIN batch.rows : batch.rows[i].high <= batch.rows[i].low)
    => FailedConfigs = {PairRule}

C3_Witness ==
  /\ Done /\ Columns(batch) = Range(ColumnSet) /\ DesignatedTypes(batch)
  /\ ValidButHighLow(batch)
  /\ \E i, j \in DOMAIN batch.rows :
       /\ batch.rows[i].high = batch.rows[i].low
       /\ batch.rows[j].high > batch.rows[j].low
  /\ FailedConfigs = {PairRule}

\* C4: a table of the eight correctly typed columns with zero rows fails the
\* row-count rule and no other rule.
C4_EmptyFailsRowCountOnly ==
  (Done /\ Columns(batch) = Range(ColumnSet) /\ DesignatedTypes(batch) /\ Len(batch.rows) = 0)
    => /\ FailedConfigs = {RowCountRule}
       /\ successful_count = total_count - 1

C4_Witness ==
  /\ Done /\ Columns(batch) = Range(ColumnSet) /\ DesignatedTypes(batch)
  /\ Len(batch.rows) = 0
  /\ RowCountRule \in FailedConfigs

\* C8: for every table the result holds one outcome per rule of the suite, in
\* the suite's order, also when a rule fails or cannot be evaluated; total is
\* the number of rules and 0 <= passed <= total.
C8_OneOutcomePerRule ==
  /\ vpc \in {"validated", "done"} =>
       /\ Len(Results) = Len(Suite)
       /\ \A i \in DOMAIN Results :
            /\ Results[i].expectation_config = Suite[i]
            /\ Results[i].success \in BOOLEAN
  /\ Done =>
       /\ total_count = Len(Suite)
       /\ 0 <= successful_count
       /\ successful_count <= total_count
       /\ successful_count = Cardinality({i \in DOMAIN Results : Results[i].success})

C8_Witness ==
  /\ Done
  /\ \E i, j \in DOMAIN Results :
       /\ i < j
       /\ Results[i].raised_exception
       /\ ~Results[j - 1].success
       /\ Results[j].success

\* the failing results, in the order of the suite
Failures == SelectSeq(Results, LAMBDA r : ~r.success)

\* the report lists the failing rules, each once and in order, with the
\* rule's kind and detail payload, and lists no passing rule
ListsTheFailures ==
  /\ Len(report) = Len(Failures)
  /\ \A j \in DOMAIN report :
       /\ report[j].expectation_type = Failures[j].expectation_config.type
       /\ report[j].result_details = Failures[j].result

\* the rules on several columns or on the whole table
TableWideKinds ==
  {"expect_table_columns_to_match_set",
   "expect_column_pair_values_a_to_be_greater_than_b",
   "expect_compound_columns_to_be_unique",
   "expect_table_row_count_to_be_between"}

\* C9 as stated: when passed < total the report lists every failing rule once
\* and no passing rule, each line giving the rule kind, the rule's target
\* column name(s) and the detail, also for the rules on several columns or on
\* the whole table; when passed == total nothing is listed.
C9_AsStated ==
  Done =>
    IF successful_count < total_count
    THEN /\ ListsTheFailures
         /\ \A j \in DOMAIN report :
              \A c \in TargetColumns(Failures[j].expectation_config) : report[j].column = c
    ELSE report = <<>> /\ Failures = <<>>

\* C9 amended: as stated, except that only a single-column rule's line names
\* its column; the line of a column-set, pairwise, compound-uniqueness or
\* row-count rule gives the placeholder "N/A" for the column.
C9_ReportListsFailures ==
  Done =>
    IF successful_count < total_count
    THEN /\ ListsTheFailures
         /\ \A j \in DOMAIN report :
              LET cfg == Failures[j].expectation_config
              IN report[j].column =
                   IF cfg.type \in TableWideKinds THEN "N/A" ELSE cfg.kwargs.column
    ELSE report = <<>> /\ Failures = <<>>

C9_Witness ==
  /\ Done
  /\ successful_count < total_count
  /\ PairRule \in FailedConfigs
  /\ NotNull("open") \in FailedConfigs
  /\ \E j \in DOMAIN report : report[j].column = "N/A"
  /\ \E j \in DOMAIN report : report[j].column = "open"

-----------------------------------------------------------------------------
(* Properties of the ingestion run *)

FetchRaised == ipc = "raised" /\ error.type = "Exception"

FetchReturned == ipc # "start" /\ ~FetchRaised

\* C5 as stated: fetch_eod_with_date returns the data list unchanged whenever
\* the status is in the 200 class, and for every other status raises an error
\* that carries both the status code and the response body text.
C5_AsStated ==
  ipc # "start" =>
    IF response.status_code >= 200 /\ response.status_code <= 299
    THEN FetchReturned /\ stock_data = response.json.data
    ELSE /\ FetchRaised
         /\ error.status_code = response.status_code
         /\ "text" \in DOMAIN error
         /\ error.text = response.text

\* C5 amended: the data list is returned unchanged whenever the status is
\* exactly 200; for every other status, the other 2xx ones included, an error
\* is raised that carries the status code; the body text is logged with the
\* status code and is not carried by the error.
C5_Only200Returns ==
  ipc # "start" =>
    IF response.status_code = 200
    THEN FetchReturned /\ stock_data = response.json.data
    ELSE /\ FetchRaised
         /\ error.status_code = response.status_code
         /\ "text" \notin DOMAIN error
         /\ \E i \in DOMAIN log :
              /\ "text" \in DOMAIN log[i]
              /\ log[i].text = response.text
              /\ log[i].status_code = response.status_code

C5_Witness ==
  /\ FetchRaised
  /\ response.status_code = 206
  /\ Len(response.json.data) >= 1
  /\ error.status_code = 206

ProcessActed == ipc \in {"processed", "saved"} \/ (ipc = "raised" /\ error.type = "KeyError")

\* a raw record as a row of the eight columns, its date parsed
AsRow(rec) ==
  [c \in Range(ColumnSet) |-> IF c = "date" THEN to_datetime(rec.date) ELSE rec[c]]

Count(seq, x) == Cardinality({i \in DOMAIN seq : seq[i] = x})

\* the rows are the input records: none added, dropped or merged
SameRecords(rows, records) ==
  LET wanted == [i \in DOMAIN records |-> AsRow(records[i])]
  IN /\ Len(rows) = Len(records)
     /\ \A x \in Range(wanted) \cup Range(rows) : Count(rows, x) = Count(wanted, x)

Normalized(d, records) ==
  /\ d.columns = ColumnSet
  /\ SameRecords(d.rows, records)
  /\ IsSorted(d.rows)

\* C6 as stated: for every record list a successful fetch can return (any
\* length, zero included; any order; extra fields allowed) process_dataframe
\* returns a table with exactly the eight columns in order, holding exactly
\* the input records, ascending by (date, symbol).
C6_AsStated ==
  ProcessActed => (error = NoError /\ Normalized(df, stock_data))

\* C6 for the non-empty lists: the same, for every list of at least one record.
C6_NonEmptyNormalized ==
  (ProcessActed /\ Len(stock_data) >= 1) => (error = NoError /\ Normalized(df, stock_data))

C6_NonEmptyWitness ==
  /\ ipc = "processed"
  /\ Len(stock_data) >= 2
  /\ \E i \in DOMAIN stock_data : "exchange" \in DOMAIN stock_data[i]
  /\ ~IsSorted([i \in DOMAIN stock_data |-> AsRow(stock_data[i])])

\* where the file is written: under data/raw for a relative destination
WrittenPath == IF output[1] = "/" THEN output ELSE <<"data", "raw">> \o output

FreshFiles == {q \in DOMAIN fs : fs[q].fresh}

\* C10: every run issues exactly one request; the file is written only after
\* the fetch succeeded and the records were normalized; a non-success status
\* ends the run with the error raised, no second request and no file created
\* or overwritten.
C10_OneRequestThenOrder ==
  /\ requests <= 1
  /\ ipc # "start" => requests = 1
  /\ FreshFiles # {} => ipc = "saved"
  /\ ipc \in {"processed", "saved"} =>
       /\ response.status_code = 200
       /\ stock_data = response.json.data
       /\ Normalized(df, stock_data)
  /\ ipc = "saved" => FreshFiles = {WrittenPath}
  /\ (ipc # "start" /\ response.status_code # 200) =>
       /\ ipc = "raised"
       /\ error.type = "Exception"
       /\ error.status_code = response.status_code
       /\ FreshFiles = {}
       /\ ~ENABLED PullNext

C10_Witness ==
  /\ ipc = "raised"
  /\ response.status_code = 500
  /\ requests = 1
  /\ WrittenPath \in DOMAIN fs
  /\ fs[WrittenPath] = OldFile

====
